---- MODULE Spec2Model ----
(***************************************************************************)
(* Lending / reservation orchestration of the library inventory system.    *)
(*                                                                         *)
(* The persistent store (book_copies, loans, reservations) is shared by    *)
(* concurrently running request handlers.  Every `await` on a repository   *)
(* in a service method is one atomic database operation and a point where  *)
(* other handlers may run, so each service method is modelled as a chain   *)
(* of actions, one per repository call, with the handler's locals kept in  *)
(* its call record.                                                        *)
(***************************************************************************)
EXTENDS Integers, FiniteSets, Sequences, TLC

\* ------------------------------------------------------------------------
\* Bounds and the fixed catalogue / user base of the model
\* ------------------------------------------------------------------------

\* number of service calls (createLoan, createReservation, updateCopyStatus)
\* issued in one behaviour
MaxCalls == 2

Calls == 1..MaxCalls

\* registered users; "u0" is an id with no row in users
Users == {"u1", "u2"}
UserIds == Users \cup {"u0"}

\* users.loan_limit of the registered users
loanLimit == [u \in Users |-> IF u = "u1" THEN 1 ELSE 2]

\* registered books; "b0" is an id with no row in books, "b2" has no copies
Books == {"b1", "b2"}
BookIds == Books \cup {"b0"}

\* registered copies; "c0" is an id with no row in book_copies
Copies == {"c1", "c2"}
CopyIds == Copies \cup {"c0"}

\* book_copies.book_id
bookOf == [c \in Copies |-> "b1"]

BookCopyStatus == {"AVAILABLE", "BORROWED", "RESERVED", "MAINTENANCE"}

ReservationStatus == {"PENDING", "NOTIFIED", "FULFILLED", "EXPIRED", "CANCELLED"}

ActiveStatus == {"PENDING", "NOTIFIED"}

\* ids of the rows of loans: 0 is the loan of the initial store, a createLoan
\* call p inserts the loan p
LoanIds == 0..MaxCalls

\* number of notification jobs enqueued in one behaviour
MaxJobs == 1

\* number of requests sent to POST /api/loans
MaxRequests == 2

\* number of times the init-db script is started
MaxRuns == 2

\* getAllMigrations(): 001 ... 008, by their position in the list
NumMigrations == 8
Migrations == 1..NumMigrations

Jobs == 1..MaxJobs

\* defaultJobOptions.attempts of the queue (config.maxRetries, default 3)
maxRetries == 3

\* concurrency of the BullMQ worker
concurrency == 5

NotificationType == {"RESERVATION_AVAILABLE", "OVERDUE_REMINDER"}

\* loans known to the loanLookup of the processor; "l0" is an unknown loan id
KnownLoans == {"l1"}
LoanRefs == KnownLoans \cup {"l0"}

VARIABLES
    copyStatus,    \* book_copies.status of every copy
    loans,         \* rows of loans: [id, userId, bookCopyId, returned]
    reservations,  \* rows of reservations: [id, userId, bookId, status, queuePosition, lapsed]
    jobs,          \* notification jobs handed to the queue
    calls,         \* the service calls: position and locals of each handler
    returnResult,  \* values returned by returnBook on each loan: by the first
                   \* call and by the latest of the calls after it
    queue,         \* the BullMQ queue "notifications": state and data of every job
    history,       \* records saved to the notification history, per job
    enqueues,      \* the enqueue calls: position and returned value
    loanLookupDefined  \* whether the processor was given a loanLookup

VARIABLES
    response,      \* the latest answer of POST /api/loans, with its request
    schema_migrations,  \* names recorded in the table schema_migrations
    upLog,         \* the up scripts the database has executed, in order
    run            \* the init-db script: runs started, position in the run

\* the HTTP front and the database initialisation
xvars == <<response, schema_migrations, upLog, run>>

nvars == <<queue, history, enqueues, loanLookupDefined, xvars>>

vars == <<copyStatus, loans, reservations, jobs, calls, returnResult,
          queue, history, enqueues, loanLookupDefined,
          response, schema_migrations, upLog, run>>

\* returnBook has not been called on the loan
NotReturned == [first |-> "NONE", again |-> "NONE"]

\* a job id not (yet) in the queue
NoJob ==
    [state |-> "none", type |-> "NONE", userId |-> "u0", ref |-> "b0",
     attemptsMade |-> 0, pc |-> "-", sendOk |-> FALSE, result |-> "NONE",
     started |-> 0, sends |-> 0]

IdleEnqueue == [op |-> "idle", pc |-> "idle", result |-> "NONE"]

\* nothing has been enqueued
QueueEmpty ==
    /\ queue = [j \in Jobs |-> NoJob]
    /\ history = [j \in Jobs |-> <<>>]
    /\ enqueues = [j \in Jobs |-> IdleEnqueue]

\* no request has been answered
NoResponse ==
    [n |-> 0, userId |-> "undefined", bookCopyId |-> "undefined",
     bookReadable |-> TRUE, copyWritable |-> TRUE,
     status |-> 0, error |-> "NONE", field |-> "-"]

\* init-db has not been started
NoRun == [n |-> 0, pc |-> "idle", i |-> 0]

\* no request was made and the database is empty
FrontAtRest ==
    /\ response = NoResponse
    /\ schema_migrations = {}
    /\ upLog = <<>>
    /\ run = NoRun

IdleCall ==
    [op |-> "idle", pc |-> "idle", userId |-> "u0", target |-> "c0",
     limit |-> 0, count |-> 0, result |-> "NONE"]

\* The store when the calls begin: either every copy is on the shelf and
\* nothing is lent, or u2 already holds c1 and c2 is in maintenance (the store
\* after createLoan(u2, c1) and updateCopyStatus(c2, MAINTENANCE)).
Init ==
    /\ \/ /\ copyStatus = [c \in Copies |-> "AVAILABLE"]
          /\ loans = {}
       \/ /\ copyStatus = [c \in Copies |->
                               IF c = "c1" THEN "BORROWED" ELSE "MAINTENANCE"]
          /\ loans = {[id |-> 0, userId |-> "u2", bookCopyId |-> "c1",
                       returned |-> FALSE]}
    /\ reservations = {}
    /\ jobs = {}
    /\ calls = [p \in Calls |-> IdleCall]
    /\ returnResult = [i \in LoanIds |-> NotReturned]
    /\ QueueEmpty
    /\ loanLookupDefined = TRUE
    /\ FrontAtRest

\* calls are issued in the order of their ids
CanBegin(p) ==
    /\ calls[p].pc = "idle"
    /\ \A q \in Calls : q < p => calls[q].pc # "idle"

\* a handler returns: its locals are gone; the call keeps its input and the
\* returned value
Finish(p, res) ==
    [calls EXCEPT ![p] = [IdleCall EXCEPT !.op = calls[p].op, !.pc = "done",
                                          !.userId = calls[p].userId,
                                          !.target = calls[p].target,
                                          !.result = res]]

\* ------------------------------------------------------------------------
\* Repository queries
\* ------------------------------------------------------------------------

\* LoanRepository.countActiveLoans: loans of the user with returned_at null
countActiveLoans(u) ==
    Cardinality({l \in loans : l.userId = u /\ ~l.returned})

\* LoanRepository.findActiveByCopyId, as a set
ActiveLoansOfCopy(c) ==
    {l \in loans : l.bookCopyId = c /\ ~l.returned}

\* ------------------------------------------------------------------------
\* LoanService.createLoan
\* ------------------------------------------------------------------------

\* 1. userRepository.findById
CreateLoanFindUser(p, u, c) ==
    /\ CanBegin(p)
    /\ IF u \notin Users
       THEN calls' = [calls EXCEPT ![p] =
                [IdleCall EXCEPT !.op = "createLoan", !.pc = "done",
                                 !.userId = u, !.target = c,
                                 !.result = "USER_NOT_FOUND"]]
       ELSE calls' = [calls EXCEPT ![p] =
                [IdleCall EXCEPT !.op = "createLoan", !.pc = "countActiveLoans",
                                 !.userId = u, !.target = c,
                                 !.limit = loanLimit[u]]]
    /\ UNCHANGED <<copyStatus, loans, reservations, jobs>>
    /\ UNCHANGED <<returnResult, nvars>>

\* the limit check with `>` for `>=`
CreateLoanCountActiveLoans_OffByOne(p) ==
    /\ calls[p].op = "createLoan"
    /\ calls[p].pc = "countActiveLoans"
    /\ LET activeLoansCount == countActiveLoans(calls[p].userId)
       IN IF activeLoansCount > calls[p].limit
          THEN calls' = [calls EXCEPT ![p] =
                   [IdleCall EXCEPT !.op = "createLoan", !.pc = "done",
                                    !.userId = calls[p].userId,
                                    !.target = calls[p].target,
                                    !.result = "LOAN_LIMIT_EXCEEDED",
                                    !.limit = calls[p].limit,
                                    !.count = activeLoansCount]]
          ELSE calls' = [calls EXCEPT ![p].pc = "findCopyById",
                                      ![p].count = activeLoansCount]
    /\ UNCHANGED <<copyStatus, loans, reservations, jobs>>
    /\ UNCHANGED <<returnResult, nvars>>

\* the copy looked up before the loan limit is checked
CreateLoanCountActiveLoans_CopyFirst(p) ==
    /\ calls[p].op = "createLoan"
    /\ calls[p].pc = "countActiveLoans"
    /\ LET activeLoansCount == countActiveLoans(calls[p].userId)
       IN IF calls[p].target \notin Copies
          THEN calls' = [calls EXCEPT ![p] =
                   [IdleCall EXCEPT !.op = "createLoan", !.pc = "done",
                                    !.userId = calls[p].userId,
                                    !.target = calls[p].target,
                                    !.result = "COPY_NOT_FOUND"]]
          ELSE IF activeLoansCount >= calls[p].limit
          THEN calls' = [calls EXCEPT ![p] =
                   [IdleCall EXCEPT !.op = "createLoan", !.pc = "done",
                                    !.userId = calls[p].userId,
                                    !.target = calls[p].target,
                                    !.result = "LOAN_LIMIT_EXCEEDED",
                                    !.limit = calls[p].limit,
                                    !.count = activeLoansCount]]
          ELSE calls' = [calls EXCEPT ![p].pc = "findCopyById",
                                      ![p].count = activeLoansCount]
    /\ UNCHANGED <<copyStatus, loans, reservations, jobs>>
    /\ UNCHANGED <<returnResult, nvars>>

\* 2. loanRepository.countActiveLoans and the loan-limit check
CreateLoanCountActiveLoans(p) ==
    /\ calls[p].op = "createLoan"
    /\ calls[p].pc = "countActiveLoans"
    /\ LET activeLoansCount == countActiveLoans(calls[p].userId)
       IN IF activeLoansCount >= calls[p].limit
          THEN calls' = [calls EXCEPT ![p] =
                   [IdleCall EXCEPT !.op = "createLoan", !.pc = "done",
                                    !.userId = calls[p].userId,
                                    !.target = calls[p].target,
                                    !.result = "LOAN_LIMIT_EXCEEDED",
                                    !.limit = calls[p].limit,
                                    !.count = activeLoansCount]]
          ELSE calls' = [calls EXCEPT ![p].pc = "findCopyById",
                                      ![p].count = activeLoansCount]
    /\ UNCHANGED <<copyStatus, loans, reservations, jobs>>
    /\ UNCHANGED <<returnResult, nvars>>

\* the status check letting a RESERVED copy through
CreateLoanFindCopyById_AllowReserved(p) ==
    /\ calls[p].op = "createLoan"
    /\ calls[p].pc = "findCopyById"
    /\ IF calls[p].target \notin Copies
       THEN calls' = Finish(p, "COPY_NOT_FOUND")
       ELSE IF copyStatus[calls[p].target] \notin {"AVAILABLE", "RESERVED"}
            THEN calls' = Finish(p, "BOOK_NOT_AVAILABLE")
            ELSE calls' = [calls EXCEPT ![p].pc = "create"]
    /\ UNCHANGED <<copyStatus, loans, reservations, jobs>>
    /\ UNCHANGED <<returnResult, nvars>>

\* 3. bookRepository.findCopyById and 4. the status check
CreateLoanFindCopyById(p) ==
    /\ calls[p].op = "createLoan"
    /\ calls[p].pc = "findCopyById"
    /\ IF calls[p].target \notin Copies
       THEN calls' = Finish(p, "COPY_NOT_FOUND")
       ELSE IF copyStatus[calls[p].target] # "AVAILABLE"
            THEN calls' = Finish(p, "BOOK_NOT_AVAILABLE")
            ELSE calls' = [calls EXCEPT ![p].pc = "create"]
    /\ UNCHANGED <<copyStatus, loans, reservations, jobs>>
    /\ UNCHANGED <<returnResult, nvars>>

\* 6. loanRepository.create
CreateLoanCreate(p) ==
    /\ calls[p].op = "createLoan"
    /\ calls[p].pc = "create"
    /\ loans' = loans \cup {[id |-> p, userId |-> calls[p].userId,
                             bookCopyId |-> calls[p].target, returned |-> FALSE]}
    /\ calls' = [calls EXCEPT ![p].pc = "updateCopy"]
    /\ UNCHANGED <<copyStatus, reservations, jobs>>
    /\ UNCHANGED <<returnResult, nvars>>

\* BookRepository.updateCopy: UPDATE book_copies SET status WHERE id
updateCopy(c, status) ==
    [copyStatus EXCEPT ![c] = status]

\* 7. bookRepository.updateCopy(bookCopyId, 'BORROWED')
CreateLoanUpdateCopy(p) ==
    /\ calls[p].op = "createLoan"
    /\ calls[p].pc = "updateCopy"
    /\ IF calls[p].target \notin Copies
       THEN /\ calls' = Finish(p, "VALIDATION_ERROR")
            /\ UNCHANGED copyStatus
       ELSE /\ copyStatus' = updateCopy(calls[p].target, "BORROWED")
            /\ calls' = Finish(p, "OK")
    /\ UNCHANGED <<loans, reservations, jobs>>
    /\ UNCHANGED <<returnResult, nvars>>

\* ------------------------------------------------------------------------
\* BookService.updateCopyStatus (administrative status change)
\* ------------------------------------------------------------------------

\* repository.findCopyById, then repository.updateCopy
UpdateCopyStatus(p, c, status) ==
    /\ CanBegin(p)
    /\ IF c \notin Copies
       THEN /\ calls' = [calls EXCEPT ![p] =
                   [IdleCall EXCEPT !.op = "updateCopyStatus", !.pc = "done",
                                    !.target = c, !.result = "NOT_FOUND"]]
            /\ UNCHANGED copyStatus
       ELSE /\ calls' = [calls EXCEPT ![p] =
                   [IdleCall EXCEPT !.op = "updateCopyStatus", !.pc = "done",
                                    !.target = c, !.result = "OK"]]
            /\ copyStatus' = updateCopy(c, status)
    /\ UNCHANGED <<loans, reservations, jobs>>
    /\ UNCHANGED <<returnResult, nvars>>

\* ------------------------------------------------------------------------
\* Reservation repository queries
\* ------------------------------------------------------------------------

\* reservations of the book that are PENDING or NOTIFIED
ActiveOfBook(res, b) ==
    {r \in res : r.bookId = b /\ r.status \in ActiveStatus}

\* ReservationRepository.countActiveByBookId
countActiveByBookId(b) ==
    Cardinality(ActiveOfBook(reservations, b))

\* ReservationRepository.hasActiveReservation
hasActiveReservation(u, b) ==
    \E r \in ActiveOfBook(reservations, b) : r.userId = u

\* BookRepository.findCopiesByBookId
findCopiesByBookId(b) ==
    {c \in Copies : bookOf[c] = b}

\* ------------------------------------------------------------------------
\* ReservationService.createReservation
\* ------------------------------------------------------------------------

\* the title looked up before the borrower
CreateReservationFindUser_BookFirst(p, u, b) ==
    /\ CanBegin(p)
    /\ IF b \notin Books
       THEN calls' = [calls EXCEPT ![p] =
                [IdleCall EXCEPT !.op = "createReservation", !.pc = "done",
                                 !.userId = u, !.target = b,
                                 !.result = "BOOK_NOT_FOUND"]]
       ELSE IF u \notin Users
            THEN calls' = [calls EXCEPT ![p] =
                     [IdleCall EXCEPT !.op = "createReservation", !.pc = "done",
                                      !.userId = u, !.target = b,
                                      !.result = "USER_NOT_FOUND"]]
            ELSE calls' = [calls EXCEPT ![p] =
                     [IdleCall EXCEPT !.op = "createReservation",
                                      !.pc = "hasActiveReservation",
                                      !.userId = u, !.target = b]]
    /\ UNCHANGED <<copyStatus, loans, reservations, jobs>>
    /\ UNCHANGED <<returnResult, nvars>>

\* 1. userRepository.findById and 2. bookRepository.findById
CreateReservationFindUser(p, u, b) ==
    /\ CanBegin(p)
    /\ IF u \notin Users
       THEN calls' = [calls EXCEPT ![p] =
                [IdleCall EXCEPT !.op = "createReservation", !.pc = "done",
                                 !.userId = u, !.target = b,
                                 !.result = "USER_NOT_FOUND"]]
       ELSE IF b \notin Books
            THEN calls' = [calls EXCEPT ![p] =
                     [IdleCall EXCEPT !.op = "createReservation", !.pc = "done",
                                      !.userId = u, !.target = b,
                                      !.result = "BOOK_NOT_FOUND"]]
            ELSE calls' = [calls EXCEPT ![p] =
                     [IdleCall EXCEPT !.op = "createReservation",
                                      !.pc = "hasActiveReservation",
                                      !.userId = u, !.target = b]]
    /\ UNCHANGED <<copyStatus, loans, reservations, jobs>>
    /\ UNCHANGED <<returnResult, nvars>>

\* 3. reservationRepository.hasActiveReservation
CreateReservationHasActiveReservation(p) ==
    /\ calls[p].op = "createReservation"
    /\ calls[p].pc = "hasActiveReservation"
    /\ IF hasActiveReservation(calls[p].userId, calls[p].target)
       THEN calls' = Finish(p, "ALREADY_RESERVED")
       ELSE calls' = [calls EXCEPT ![p].pc = "findCopiesByBookId"]
    /\ UNCHANGED <<copyStatus, loans, reservations, jobs>>
    /\ UNCHANGED <<returnResult, nvars>>

\* 4. bookRepository.findCopiesByBookId and the availability check
CreateReservationFindCopiesByBookId(p) ==
    /\ calls[p].op = "createReservation"
    /\ calls[p].pc = "findCopiesByBookId"
    /\ LET copies == findCopiesByBookId(calls[p].target)
           hasAvailableCopy == \E c \in copies : copyStatus[c] = "AVAILABLE"
       IN IF hasAvailableCopy
          THEN calls' = Finish(p, "BOOK_AVAILABLE")
          ELSE calls' = [calls EXCEPT ![p].pc = "countActiveByBookId"]
    /\ UNCHANGED <<copyStatus, loans, reservations, jobs>>
    /\ UNCHANGED <<returnResult, nvars>>

\* 5. reservationRepository.countActiveByBookId
CreateReservationCountActiveByBookId(p) ==
    /\ calls[p].op = "createReservation"
    /\ calls[p].pc = "countActiveByBookId"
    /\ LET currentQueueCount == countActiveByBookId(calls[p].target)
       IN calls' = [calls EXCEPT ![p].pc = "create",
                                 ![p].count = currentQueueCount + 1]
    /\ UNCHANGED <<copyStatus, loans, reservations, jobs>>
    /\ UNCHANGED <<returnResult, nvars>>

\* a create step that also puts a hold on the copies of the title that are out
CreateReservationCreate_HoldsCopy(p) ==
    /\ calls[p].op = "createReservation"
    /\ calls[p].pc = "create"
    /\ reservations' = reservations \cup
           {[id |-> p, userId |-> calls[p].userId, bookId |-> calls[p].target,
             status |-> "PENDING", queuePosition |-> calls[p].count,
             lapsed |-> FALSE]}
    /\ copyStatus' = [c \in Copies |->
                          IF bookOf[c] = calls[p].target /\ copyStatus[c] = "BORROWED"
                          THEN "RESERVED" ELSE copyStatus[c]]
    /\ calls' = Finish(p, "OK")
    /\ UNCHANGED <<loans, jobs>>
    /\ UNCHANGED <<returnResult, nvars>>

\* 6. reservationRepository.create(input, queuePosition)
CreateReservationCreate(p) ==
    /\ calls[p].op = "createReservation"
    /\ calls[p].pc = "create"
    /\ reservations' = reservations \cup
           {[id |-> p, userId |-> calls[p].userId, bookId |-> calls[p].target,
             status |-> "PENDING", queuePosition |-> calls[p].count,
             lapsed |-> FALSE]}
    /\ calls' = Finish(p, "OK")
    /\ UNCHANGED <<copyStatus, loans, jobs>>
    /\ UNCHANGED <<returnResult, nvars>>

\* ------------------------------------------------------------------------
\* Promotion, return, cancellation and expiry of holds
\* ------------------------------------------------------------------------

\* x is ahead of r in the queue (earlier position, ties by creation order)
Ahead(x, r) ==
    \/ x.queuePosition < r.queuePosition
    \/ x.queuePosition = r.queuePosition /\ x.id < r.id

\* re-number the PENDING/NOTIFIED reservations of a book to 1..N in queue order
Renumber(res, b) ==
    LET active == ActiveOfBook(res, b)
    IN {IF r \in active
        THEN [r EXCEPT !.queuePosition =
                  1 + Cardinality({x \in active : Ahead(x, r)})]
        ELSE r : r \in res}

PendingOfBook(res, b) ==
    {r \in res : r.bookId = b /\ r.status = "PENDING"}

\* processReturnedBook notifying everybody who waits
processReturnedBook_NotifiesAll(st, b, c) ==
    LET pending == PendingOfBook(st.res, b)
    IN IF pending = {}
       THEN [st EXCEPT !.cs = [st.cs EXCEPT ![c] = "AVAILABLE"]]
       ELSE [res |-> (st.res \ pending) \cup
                         {[r EXCEPT !.status = "NOTIFIED", !.lapsed = FALSE] :
                              r \in pending},
             cs |-> [st.cs EXCEPT ![c] = "RESERVED"],
             jb |-> st.jb \cup {[type |-> "RESERVATION_AVAILABLE",
                                 userId |-> r.userId,
                                 bookId |-> b,
                                 reservationId |-> r.id] : r \in pending}]

\* processReturnedBook: the head of the queue is notified and the copy held
\* for it; with nobody waiting the copy becomes AVAILABLE
processReturnedBook(st, b, c) ==
    LET pending == PendingOfBook(st.res, b)
    IN IF pending = {}
       THEN [st EXCEPT !.cs = [st.cs EXCEPT ![c] = "AVAILABLE"]]
       ELSE LET head == CHOOSE r \in pending :
                            \A x \in pending : x = r \/ Ahead(r, x)
            IN [res |-> (st.res \ {head}) \cup
                            {[head EXCEPT !.status = "NOTIFIED", !.lapsed = FALSE]},
                cs |-> [st.cs EXCEPT ![c] = "RESERVED"],
                jb |-> st.jb \cup {[type |-> "RESERVATION_AVAILABLE",
                                    userId |-> head.userId,
                                    bookId |-> b,
                                    reservationId |-> head.id]}]

\* the value returned by a returnBook call on loan i is kept
Returned(i, res) ==
    [returnResult EXCEPT ![i] = IF @.first = "NONE"
                                THEN [@ EXCEPT !.first = res]
                                ELSE [@ EXCEPT !.again = res]]

\* returnBook that does not look at returned-at
ReturnBook_NoReturnedCheck(l) ==
    /\ l \in loans
    /\ LET st == processReturnedBook(
                     [res |-> reservations, cs |-> copyStatus, jb |-> jobs],
                     bookOf[l.bookCopyId], l.bookCopyId)
       IN /\ reservations' = st.res
          /\ copyStatus' = st.cs
          /\ jobs' = st.jb
    /\ loans' = (loans \ {l}) \cup {[l EXCEPT !.returned = TRUE]}
    /\ returnResult' = Returned(l.id, "OK")
    /\ UNCHANGED <<calls, nvars>>

\* returnBook: ALREADY_RETURNED for a closed loan; otherwise close the loan,
\* then promote or release the copy
ReturnBook(l) ==
    /\ l \in loans
    /\ IF l.returned
       THEN /\ returnResult' = Returned(l.id, "ALREADY_RETURNED")
            /\ UNCHANGED <<reservations, copyStatus, jobs, loans>>
       ELSE /\ LET st == processReturnedBook(
                             [res |-> reservations, cs |-> copyStatus, jb |-> jobs],
                             bookOf[l.bookCopyId], l.bookCopyId)
               IN /\ reservations' = st.res
                  /\ copyStatus' = st.cs
                  /\ jobs' = st.jb
            /\ loans' = (loans \ {l}) \cup {[l EXCEPT !.returned = TRUE]}
            /\ returnResult' = Returned(l.id, "OK")
    /\ UNCHANGED <<calls, nvars>>

\* cancelReservation: CANCELLED, the rest of the queue is re-numbered
CancelReservation(r) ==
    /\ r \in reservations
    /\ r.status \in ActiveStatus
    /\ reservations' = Renumber((reservations \ {r}) \cup
                                    {[r EXCEPT !.status = "CANCELLED"]}, r.bookId)
    /\ UNCHANGED <<copyStatus, loans, jobs, calls>>
    /\ UNCHANGED <<returnResult, nvars>>

\* the clock passes the expires-at of a NOTIFIED reservation
HoldLapses(r) ==
    /\ r \in reservations
    /\ r.status = "NOTIFIED"
    /\ ~r.lapsed
    /\ reservations' = (reservations \ {r}) \cup {[r EXCEPT !.lapsed = TRUE]}
    /\ UNCHANGED <<copyStatus, loans, jobs, calls>>
    /\ UNCHANGED <<returnResult, nvars>>

\* a sweep step that passes the copy on but leaves the hold NOTIFIED
ExpireOne_StaysNotified(st, i) ==
    LET r == CHOOSE x \in st.res : x.id = i
        b == r.bookId
        held == {c \in Copies : bookOf[c] = b /\ st.cs[c] = "RESERVED"}
        st2 == IF held = {} THEN st
               ELSE processReturnedBook(st, b, CHOOSE c \in held : TRUE)
    IN [st2 EXCEPT !.res = Renumber(st2.res, b)]

\* a sweep step that leaves the queue positions as they were
ExpireOne_NoRenumber(st, i) ==
    LET r == CHOOSE x \in st.res : x.id = i
        b == r.bookId
        st1 == [st EXCEPT !.res = (st.res \ {r}) \cup
                                      {[r EXCEPT !.status = "EXPIRED"]}]
        held == {c \in Copies : bookOf[c] = b /\ st.cs[c] = "RESERVED"}
    IN IF held = {} THEN st1
       ELSE processReturnedBook(st1, b, CHOOSE c \in held : TRUE)

\* one reservation of the sweep: EXPIRED, its held copy released or passed on
ExpireOne(st, i) ==
    LET r == CHOOSE x \in st.res : x.id = i
        b == r.bookId
        st1 == [st EXCEPT !.res = (st.res \ {r}) \cup
                                      {[r EXCEPT !.status = "EXPIRED"]}]
        held == {c \in Copies : bookOf[c] = b /\ st.cs[c] = "RESERVED"}
        st2 == IF held = {} THEN st1
               ELSE processReturnedBook(st1, b, CHOOSE c \in held : TRUE)
    IN [st2 EXCEPT !.res = Renumber(st2.res, b)]

RECURSIVE SweepFrom(_, _)
SweepFrom(st, ids) ==
    IF ids = {} THEN st
    ELSE LET i == CHOOSE x \in ids : \A y \in ids : x <= y
         IN SweepFrom(ExpireOne(st, i), ids \ {i})

\* the NOTIFIED reservations whose expires-at is in the past
StaleIds(res) ==
    {r.id : r \in {x \in res : x.status = "NOTIFIED" /\ x.lapsed}}

\* one run of the sweep over a store
Sweep(st) == SweepFrom(st, StaleIds(st.res))

\* the reservations, copy statuses and outbox as one store value
Store == [res |-> reservations, cs |-> copyStatus, jb |-> jobs]

\* expireStaleReservations: the sweep over the NOTIFIED reservations past expiry
ExpireStaleReservations ==
    LET st == Sweep(Store)
    IN /\ StaleIds(reservations) # {}
       /\ reservations' = st.res
       /\ copyStatus' = st.cs
       /\ jobs' = st.jb
       /\ UNCHANGED <<loans, calls>>
       /\ UNCHANGED <<returnResult, nvars>>

Next ==
    \/ \E p \in Calls, u \in UserIds, c \in CopyIds : CreateLoanFindUser(p, u, c)
    \/ \E p \in Calls : CreateLoanCountActiveLoans(p)
    \/ \E p \in Calls : CreateLoanFindCopyById(p)
    \/ \E p \in Calls : CreateLoanCreate(p)
    \/ \E p \in Calls : CreateLoanUpdateCopy(p)
    \/ \E p \in Calls, c \in CopyIds, st \in BookCopyStatus :
           UpdateCopyStatus(p, c, st)
    \/ \E p \in Calls, u \in UserIds, b \in BookIds : CreateReservationFindUser(p, u, b)
    \/ \E p \in Calls : CreateReservationHasActiveReservation(p)
    \/ \E p \in Calls : CreateReservationFindCopiesByBookId(p)
    \/ \E p \in Calls : CreateReservationCountActiveByBookId(p)
    \/ \E p \in Calls : CreateReservationCreate(p)
    \/ \E l \in loans : ReturnBook(l)
    \/ \E r \in reservations : CancelReservation(r)
    \/ \E r \in reservations : HoldLapses(r)
    \/ ExpireStaleReservations

Spec == Init /\ [][Next]_vars

\* ------------------------------------------------------------------------
\* Notification queue (BullMQ), its worker and the e-mail processor
\* ------------------------------------------------------------------------

lvars == <<copyStatus, loans, reservations, jobs, calls, returnResult, xvars>>

\* The dispatcher on its own: the lending side is at rest, nothing has been
\* enqueued, the processor was built with or without a loanLookup.
NotifyInit ==
    /\ copyStatus = [c \in Copies |-> "AVAILABLE"]
    /\ loans = {}
    /\ reservations = {}
    /\ jobs = {}
    /\ calls = [p \in Calls |-> IdleCall]
    /\ returnResult = [i \in LoanIds |-> NotReturned]
    /\ QueueEmpty
    /\ loanLookupDefined \in BOOLEAN
    /\ FrontAtRest

\* enqueue calls are issued in the order of their ids; the job of call k gets
\* the id k
CanEnqueue(k) ==
    /\ enqueues[k].pc = "idle"
    /\ \A q \in Jobs : q < k => enqueues[q].pc # "idle"

\* queue.add(name, data): the job enters the queue waiting, with no attempt made
enqueue(k, data) ==
    [queue EXCEPT ![k] = [NoJob EXCEPT !.state = "waiting",
                                       !.type = data.type,
                                       !.userId = data.userId,
                                       !.ref = data.ref]]

\* NotificationQueue.enqueue up to the end of `await queue.add`: the job is in
\* the queue, or queue.add threw and QUEUE_ERROR is returned
Enqueue(k, op, data, added) ==
    /\ CanEnqueue(k)
    /\ IF added
       THEN /\ queue' = enqueue(k, data)
            /\ enqueues' = [enqueues EXCEPT ![k] =
                    [op |-> op, pc |-> "return", result |-> "NONE"]]
       ELSE /\ enqueues' = [enqueues EXCEPT ![k] =
                    [op |-> op, pc |-> "done", result |-> "QUEUE_ERROR"]]
            /\ UNCHANGED queue
    /\ UNCHANGED <<history, loanLookupDefined, lvars>>

\* sendReservationAvailable enqueuing a job of the other type
SendReservationAvailable_WrongType(k, u, b, added) ==
    Enqueue(k, "sendReservationAvailable",
            [type |-> "OVERDUE_REMINDER", userId |-> u, ref |-> b], added)

\* NotificationService.sendReservationAvailable(userId, bookId)
SendReservationAvailable(k, u, b, added) ==
    Enqueue(k, "sendReservationAvailable",
            [type |-> "RESERVATION_AVAILABLE", userId |-> u, ref |-> b], added)

\* NotificationService.sendOverdueReminder(userId, loanId)
SendOverdueReminder(k, u, l, added) ==
    Enqueue(k, "sendOverdueReminder",
            [type |-> "OVERDUE_REMINDER", userId |-> u, ref |-> l], added)

\* the enqueue call returns ok(job.id) to its caller
EnqueueReturn(k) ==
    /\ enqueues[k].pc = "return"
    /\ enqueues' = [enqueues EXCEPT ![k].pc = "done", ![k].result = "OK"]
    /\ UNCHANGED <<queue, history, loanLookupDefined, lvars>>

ActiveJobs == {j \in Jobs : queue[j].state = "active"}

\* the worker takes a waiting job and calls the processor with job.data
WorkerTake(j) ==
    /\ queue[j].state = "waiting"
    /\ Cardinality(ActiveJobs) < concurrency
    /\ queue' = [queue EXCEPT ![j].state = "active",
                              ![j].pc = "userLookup",
                              ![j].started = @ + 1]
    /\ UNCHANGED <<history, enqueues, loanLookupDefined, lvars>>

\* the processor returns err(SEND_ERROR) before sending
ContextMissing(j) ==
    [queue EXCEPT ![j].pc = "finish", ![j].result = "SEND_ERROR"]

\* processor: userLookup(data.userId)
ProcUserLookup(j) ==
    /\ queue[j].state = "active"
    /\ queue[j].pc = "userLookup"
    /\ IF queue[j].userId \notin Users
       THEN queue' = ContextMissing(j)
       ELSE queue' = [queue EXCEPT ![j].pc = "contextLookup"]
    /\ UNCHANGED <<history, enqueues, loanLookupDefined, lvars>>

\* processor: bookLookup(data.bookId), or loanLookup(data.loanId)
ProcContextLookup(j) ==
    /\ queue[j].state = "active"
    /\ queue[j].pc = "contextLookup"
    /\ IF queue[j].type = "RESERVATION_AVAILABLE"
       THEN IF queue[j].ref \notin Books
            THEN queue' = ContextMissing(j)
            ELSE queue' = [queue EXCEPT ![j].pc = "send"]
       ELSE IF ~loanLookupDefined
            THEN queue' = ContextMissing(j)
            ELSE IF queue[j].ref \notin KnownLoans
                 THEN queue' = ContextMissing(j)
                 ELSE queue' = [queue EXCEPT ![j].pc = "send"]
    /\ UNCHANGED <<history, enqueues, loanLookupDefined, lvars>>

\* processor: emailSender.send, which succeeds or returns an error
ProcSend(j, sent) ==
    /\ queue[j].state = "active"
    /\ queue[j].pc = "send"
    /\ queue' = [queue EXCEPT ![j].pc = "save",
                              ![j].sendOk = sent,
                              ![j].sends = @ + 1]
    /\ UNCHANGED <<history, enqueues, loanLookupDefined, lvars>>

\* the history record of the attempt
historyRecord(j) ==
    [type |-> queue[j].type, userId |-> queue[j].userId,
     success |-> queue[j].sendOk]

\* processor that records only the deliveries that succeeded
ProcSave_SuccessOnly(j) ==
    /\ queue[j].state = "active"
    /\ queue[j].pc = "save"
    /\ history' = IF queue[j].sendOk
                  THEN [history EXCEPT ![j] = Append(@, historyRecord(j))]
                  ELSE history
    /\ queue' = [queue EXCEPT ![j].pc = "finish",
                              ![j].result = IF queue[j].sendOk
                                            THEN "OK" ELSE "SEND_ERROR"]
    /\ UNCHANGED <<enqueues, loanLookupDefined, lvars>>

\* processor: historyRepository.save(historyRecord), then the result of send
\* is returned
ProcSave(j) ==
    /\ queue[j].state = "active"
    /\ queue[j].pc = "save"
    /\ history' = [history EXCEPT ![j] = Append(@, historyRecord(j))]
    /\ queue' = [queue EXCEPT ![j].pc = "finish",
                              ![j].result = IF queue[j].sendOk
                                            THEN "OK" ELSE "SEND_ERROR"]
    /\ UNCHANGED <<enqueues, loanLookupDefined, lvars>>

\* the job leaves the worker
Finished(j, state) ==
    [queue EXCEPT ![j].state = state,
                  ![j].pc = "-",
                  ![j].attemptsMade = @ + 1]

\* a worker retrying once more than the attempts allow
WorkerFinish_OneMore(j) ==
    /\ queue[j].state = "active"
    /\ queue[j].pc = "finish"
    /\ IF queue[j].result = "OK"
       THEN queue' = Finished(j, "completed")
       ELSE IF queue[j].attemptsMade + 1 <= maxRetries
            THEN queue' = Finished(j, "delayed")
            ELSE queue' = Finished(j, "failed")
    /\ UNCHANGED <<history, enqueues, loanLookupDefined, lvars>>

\* a worker that swallows the processor's error and reports nothing
WorkerFinish_DropsFailure(j) ==
    /\ queue[j].state = "active"
    /\ queue[j].pc = "finish"
    /\ IF queue[j].result = "OK"
       THEN queue' = Finished(j, "completed")
       ELSE queue' = [queue EXCEPT ![j].pc = "-"]
    /\ UNCHANGED <<history, enqueues, loanLookupDefined, lvars>>

\* the worker callback ends: it returns (the job is completed) or, for any
\* error of the processor, throws (the job is retried after the backoff while
\* attempts remain, and failed otherwise)
WorkerFinish(j) ==
    /\ queue[j].state = "active"
    /\ queue[j].pc = "finish"
    /\ IF queue[j].result = "OK"
       THEN queue' = Finished(j, "completed")
       ELSE IF queue[j].attemptsMade + 1 < maxRetries
            THEN queue' = Finished(j, "delayed")
            ELSE queue' = Finished(j, "failed")
    /\ UNCHANGED <<history, enqueues, loanLookupDefined, lvars>>

\* the fixed backoff delay of a retried job has passed
BackoffElapses(j) ==
    /\ queue[j].state = "delayed"
    /\ queue' = [queue EXCEPT ![j].state = "waiting"]
    /\ UNCHANGED <<history, enqueues, loanLookupDefined, lvars>>

\* removeOnComplete / removeOnFail: the queue keeps the last 100 completed and
\* the last 100 failed jobs; enough jobs of other callers have finished since
\* job j did, and job j is dropped from the queue
RemovedByRetention(j) ==
    /\ queue[j].state \in {"completed", "failed"}
    /\ queue' = [queue EXCEPT ![j].state = "removed"]
    /\ UNCHANGED <<history, enqueues, loanLookupDefined, lvars>>

\* getJobStatus reporting a job that is being worked on as COMPLETED
getJobStatus_ActiveIsCompleted(j) ==
    IF queue[j].state \in {"none", "removed"} THEN "JOB_NOT_FOUND"
    ELSE IF queue[j].state \in {"completed", "active"} THEN "COMPLETED"
    ELSE IF queue[j].state = "failed" THEN "FAILED"
    ELSE "PENDING"

\* NotificationQueue.getJobStatus: the status reported for a job id
getJobStatus(j) ==
    IF queue[j].state \in {"none", "removed"} THEN "JOB_NOT_FOUND"
    ELSE IF queue[j].state = "completed" THEN "COMPLETED"
    ELSE IF queue[j].state = "failed" THEN "FAILED"
    ELSE IF queue[j].state = "active" THEN "PROCESSING"
    ELSE "PENDING"

\* the steps of the worker on job j
WorkerStep(j) ==
    \/ WorkerTake(j)
    \/ ProcUserLookup(j)
    \/ ProcContextLookup(j)
    \/ \E sent \in BOOLEAN : ProcSend(j, sent)
    \/ ProcSave(j)
    \/ WorkerFinish(j)
    \/ BackoffElapses(j)

NotifyNext ==
    \/ \E k \in Jobs, u \in {"u1", "u0"}, b \in {"b1", "b0"}, added \in BOOLEAN :
           SendReservationAvailable(k, u, b, added)
    \/ \E k \in Jobs, u \in {"u1", "u0"}, l \in LoanRefs, added \in BOOLEAN :
           SendOverdueReminder(k, u, l, added)
    \/ \E k \in Jobs : EnqueueReturn(k)
    \/ \E j \in Jobs : WorkerTake(j)
    \/ \E j \in Jobs : ProcUserLookup(j)
    \/ \E j \in Jobs : ProcContextLookup(j)
    \/ \E j \in Jobs, sent \in BOOLEAN : ProcSend(j, sent)
    \/ \E j \in Jobs : ProcSave(j)
    \/ \E j \in Jobs : WorkerFinish(j)
    \/ \E j \in Jobs : BackoffElapses(j)
    \/ \E j \in Jobs : RemovedByRetention(j)

NotifySpec == NotifyInit /\ [][NotifyNext]_vars

\* the worker keeps running: a step of the worker that stays possible is
\* eventually taken (send returns, the backoff timer fires)
NotifyLiveSpec ==
    /\ NotifyInit
    /\ [][NotifyNext]_vars
    /\ \A j \in Jobs : WF_vars(WorkerStep(j))

\* ------------------------------------------------------------------------
\* POST /api/loans: the controller over createLoanWithReceipt, one request
\* at a time
\* ------------------------------------------------------------------------

\* a field the request body leaves out or sends empty
MissingIds == {"undefined", ""}

LoanErrorTypes ==
    {"VALIDATION_ERROR", "USER_NOT_FOUND", "COPY_NOT_FOUND", "LOAN_NOT_FOUND",
     "BOOK_NOT_AVAILABLE", "LOAN_LIMIT_EXCEEDED", "ALREADY_RETURNED"}

getErrorStatusCode(type) ==
    CASE type = "VALIDATION_ERROR" -> 400
      [] type = "USER_NOT_FOUND" -> 404
      [] type = "COPY_NOT_FOUND" -> 404
      [] type = "LOAN_NOT_FOUND" -> 404
      [] type = "BOOK_NOT_AVAILABLE" -> 409
      [] type = "LOAN_LIMIT_EXCEEDED" -> 409
      [] type = "ALREADY_RETURNED" -> 409

\* value and effect of a service call run from the current store
Outcome(type, field, ls, cs) ==
    [type |-> type, field |-> field, loans |-> ls, copyStatus |-> cs]

\* the row loanRepository.create inserts
newLoan(id, u, c) ==
    [id |-> id, userId |-> u, bookCopyId |-> c, returned |-> FALSE]

\* createLoan run without interleaving; copyWritable says whether updateCopy
\* still finds the row of the copy
createLoan(id, u, c, copyWritable) ==
    IF u \notin Users
    THEN Outcome("USER_NOT_FOUND", "-", loans, copyStatus)
    ELSE IF countActiveLoans(u) >= loanLimit[u]
    THEN Outcome("LOAN_LIMIT_EXCEEDED", "-", loans, copyStatus)
    ELSE IF c \notin Copies
    THEN Outcome("COPY_NOT_FOUND", "-", loans, copyStatus)
    ELSE IF copyStatus[c] # "AVAILABLE"
    THEN Outcome("BOOK_NOT_AVAILABLE", "-", loans, copyStatus)
    ELSE IF ~copyWritable
    THEN Outcome("VALIDATION_ERROR", "bookCopy",
                 loans \cup {newLoan(id, u, c)}, copyStatus)
    ELSE Outcome("OK", "-",
                 loans \cup {newLoan(id, u, c)}, updateCopy(c, "BORROWED"))

\* createLoanWithReceipt that reads the title after inserting the loan
createLoanWithReceipt_InsertsFirst(id, u, c, bookReadable, copyWritable) ==
    IF u \notin Users
    THEN Outcome("USER_NOT_FOUND", "-", loans, copyStatus)
    ELSE IF countActiveLoans(u) >= loanLimit[u]
    THEN Outcome("LOAN_LIMIT_EXCEEDED", "-", loans, copyStatus)
    ELSE IF c \notin Copies
    THEN Outcome("COPY_NOT_FOUND", "-", loans, copyStatus)
    ELSE IF copyStatus[c] # "AVAILABLE"
    THEN Outcome("BOOK_NOT_AVAILABLE", "-", loans, copyStatus)
    ELSE IF ~bookReadable
    THEN Outcome("VALIDATION_ERROR", "book",
                 loans \cup {newLoan(id, u, c)}, copyStatus)
    ELSE IF ~copyWritable
    THEN Outcome("VALIDATION_ERROR", "bookCopy",
                 loans \cup {newLoan(id, u, c)}, copyStatus)
    ELSE Outcome("OK", "-",
                 loans \cup {newLoan(id, u, c)}, updateCopy(c, "BORROWED"))

\* createLoanWithReceipt run without interleaving; bookReadable says whether
\* bookRepository.findById finds the title of the copy
createLoanWithReceipt(id, u, c, bookReadable, copyWritable) ==
    IF u \notin Users
    THEN Outcome("USER_NOT_FOUND", "-", loans, copyStatus)
    ELSE IF countActiveLoans(u) >= loanLimit[u]
    THEN Outcome("LOAN_LIMIT_EXCEEDED", "-", loans, copyStatus)
    ELSE IF c \notin Copies
    THEN Outcome("COPY_NOT_FOUND", "-", loans, copyStatus)
    ELSE IF copyStatus[c] # "AVAILABLE"
    THEN Outcome("BOOK_NOT_AVAILABLE", "-", loans, copyStatus)
    ELSE IF ~bookReadable
    THEN Outcome("VALIDATION_ERROR", "book", loans, copyStatus)
    ELSE IF ~copyWritable
    THEN Outcome("VALIDATION_ERROR", "bookCopy",
                 loans \cup {newLoan(id, u, c)}, copyStatus)
    ELSE Outcome("OK", "-",
                 loans \cup {newLoan(id, u, c)}, updateCopy(c, "BORROWED"))

\* the answer to a request
Responds(u, c, bookReadable, copyWritable, status, error, field) ==
    response' = [n |-> response.n + 1, userId |-> u, bookCopyId |-> c,
                 bookReadable |-> bookReadable, copyWritable |-> copyWritable,
                 status |-> status, error |-> error, field |-> field]

\* router.post('/'): the body is validated, then createLoanWithReceipt decides
PostLoans(u, c, bookReadable, copyWritable) ==
    /\ response.n < MaxRequests
    /\ IF u \in MissingIds
       THEN /\ Responds(u, c, bookReadable, copyWritable,
                        400, "VALIDATION_ERROR", "userId")
            /\ UNCHANGED <<loans, copyStatus>>
       ELSE IF c \in MissingIds
       THEN /\ Responds(u, c, bookReadable, copyWritable,
                        400, "VALIDATION_ERROR", "bookCopyId")
            /\ UNCHANGED <<loans, copyStatus>>
       ELSE LET result == createLoanWithReceipt(MaxCalls + response.n + 1, u, c,
                                                bookReadable, copyWritable)
            IN /\ IF result.type = "OK"
                  THEN Responds(u, c, bookReadable, copyWritable,
                                201, "NONE", "-")
                  ELSE Responds(u, c, bookReadable, copyWritable,
                                getErrorStatusCode(result.type),
                                result.type, result.field)
               /\ loans' = result.loans
               /\ copyStatus' = result.copyStatus
    /\ UNCHANGED <<reservations, jobs, calls, returnResult>>
    /\ UNCHANGED <<queue, history, enqueues, loanLookupDefined>>
    /\ UNCHANGED <<schema_migrations, upLog, run>>

HttpNext ==
    \E u \in MissingIds \cup UserIds, c \in MissingIds \cup CopyIds,
       bookReadable \in BOOLEAN, copyWritable \in BOOLEAN :
        PostLoans(u, c, bookReadable, copyWritable)

HttpSpec == Init /\ [][HttpNext]_vars

\* ------------------------------------------------------------------------
\* init-db: the migrations, one run of the script after the other
\* ------------------------------------------------------------------------

\* the script is started only when the previous run has ended
MigrateInit ==
    /\ NotifyInit
    /\ loanLookupDefined = TRUE

\* the catch of initDatabase: the error is logged and the process exits
Exits == [run EXCEPT !.pc = "idle", !.i = 0]

\* runMigration returns: the loop goes to the next migration or ends
NextMigration ==
    IF run.i = NumMigrations
    THEN [run EXCEPT !.pc = "idle", !.i = 0]
    ELSE [run EXCEPT !.pc = "isMigrationApplied", !.i = run.i + 1]

\* what the script leaves alone
NoRequest ==
    /\ UNCHANGED <<copyStatus, loans, reservations, jobs, calls, returnResult>>
    /\ UNCHANGED <<queue, history, enqueues, loanLookupDefined>>
    /\ UNCHANGED response

\* initDatabase: SELECT 1 and ensureSchemaMigrationsTable, then the loop
InitDatabase(ok) ==
    /\ run.pc = "idle"
    /\ run.n < MaxRuns
    /\ run' = IF ok THEN [n |-> run.n + 1, pc |-> "isMigrationApplied", i |-> 1]
              ELSE [n |-> run.n + 1, pc |-> "idle", i |-> 0]
    /\ UNCHANGED <<schema_migrations, upLog>>
    /\ NoRequest

\* runMigration: isMigrationApplied, and the early return of a recorded one
IsMigrationApplied(ok) ==
    /\ run.pc = "isMigrationApplied"
    /\ run' = IF ~ok THEN Exits
              ELSE IF run.i \in schema_migrations THEN NextMigration
              ELSE [run EXCEPT !.pc = "up"]
    /\ UNCHANGED <<schema_migrations, upLog>>
    /\ NoRequest

\* runMigration: pool.query(migration.up)
Up(ok) ==
    /\ run.pc = "up"
    /\ IF ok
       THEN /\ upLog' = Append(upLog, run.i)
            /\ run' = [run EXCEPT !.pc = "recordMigration"]
       ELSE /\ upLog' = upLog
            /\ run' = Exits
    /\ UNCHANGED schema_migrations
    /\ NoRequest

\* runMigration: recordMigration, a query of its own after the up script
RecordMigration(ok) ==
    /\ run.pc = "recordMigration"
    /\ IF ok
       THEN /\ schema_migrations' = schema_migrations \cup {run.i}
            /\ run' = NextMigration
       ELSE /\ schema_migrations' = schema_migrations
            /\ run' = Exits
    /\ UNCHANGED upLog
    /\ NoRequest

MigrateNext ==
    \/ \E ok \in BOOLEAN : InitDatabase(ok)
    \/ \E ok \in BOOLEAN : IsMigrationApplied(ok)
    \/ \E ok \in BOOLEAN : Up(ok)
    \/ \E ok \in BOOLEAN : RecordMigration(ok)

MigrateSpec == MigrateInit /\ [][MigrateNext]_vars

\* ------------------------------------------------------------------------
\* Steps of a call, as seen across one transition
\* ------------------------------------------------------------------------

\* call p takes the step it is waiting at in pc
Steps(p, op, pc) ==
    /\ calls[p].op = op
    /\ calls[p].pc = pc
    /\ calls'[p].pc # pc

\* call p returns in this transition with the given value
Returns(p, res) ==
    /\ calls'[p].pc = "done"
    /\ calls'[p].result = res

LoanOfCall(p) == {l \in loans : l.id = p}

\* ------------------------------------------------------------------------
\* C1: for every borrower the number of loans with returned-at = null never
\* exceeds the borrower's loan limit, also under concurrent createLoan calls.
\* ------------------------------------------------------------------------
C1_LoanLimitNeverExceeded ==
    \A u \in Users : countActiveLoans(u) <= loanLimit[u]

\* ------------------------------------------------------------------------
\* C2: at most one loan with returned-at = null exists per copy, also when
\* two createLoan calls for the copy interleave.
\* ------------------------------------------------------------------------
C2_OneOpenLoanPerCopy ==
    \A c \in Copies : Cardinality(ActiveLoansOfCopy(c)) <= 1

\* ------------------------------------------------------------------------
\* C3: for every title the queue positions of its PENDING/NOTIFIED
\* reservations are exactly 1..N, each once, N being their number.
\* ------------------------------------------------------------------------
C3_QueuePositionsContiguous ==
    \A b \in Books :
        LET active == ActiveOfBook(reservations, b)
            N == Cardinality(active)
        IN /\ {r.queuePosition : r \in active} = 1..N
           /\ \A r1, r2 \in active :
                  r1.queuePosition = r2.queuePosition => r1 = r2

\* ------------------------------------------------------------------------
\* C4: a borrower has at most one PENDING/NOTIFIED reservation per title,
\* also when the borrower's createReservation calls interleave.
\* ------------------------------------------------------------------------
C4_OneActiveReservationPerBorrower ==
    \A b \in Books, u \in Users :
        Cardinality({r \in ActiveOfBook(reservations, b) : r.userId = u}) <= 1

\* ------------------------------------------------------------------------
\* C5: when the status write of createLoan finds the copy no longer
\* AVAILABLE (or the write is rejected), the transition AVAILABLE->BORROWED
\* has failed: createLoan returns a failure and no loan of the call remains.
\* ------------------------------------------------------------------------
C5_FailedTransitionRecordsNoLoan ==
    [][\A p \in Calls :
          ( /\ Steps(p, "createLoan", "updateCopy")
            /\ \/ calls[p].target \notin Copies
               \/ copyStatus[calls[p].target] # "AVAILABLE" )
          => /\ calls'[p].pc = "done"
             /\ calls'[p].result # "OK"
             /\ \A l \in loans' : l.id # p]_vars

\* ------------------------------------------------------------------------
\* C6: the status check of createLoan, made by the borrower of a NOTIFIED
\* reservation for a copy of the title that is held RESERVED
\* ------------------------------------------------------------------------
NotifiedBorrowerChecksReservedCopy(p) ==
    /\ Steps(p, "createLoan", "findCopyById")
    /\ calls[p].target \in Copies
    /\ copyStatus[calls[p].target] = "RESERVED"
    /\ \E r \in reservations :
           /\ r.status = "NOTIFIED"
           /\ r.userId = calls[p].userId
           /\ r.bookId = bookOf[calls[p].target]

C7_NeverLendsNonAvailableCopy ==
    [][/\ copyStatus' \in [Copies -> BookCopyStatus]
       /\ \A p \in Calls :
              ( \/ Steps(p, "createLoan", "create")
                \/ Steps(p, "createLoan", "updateCopy") /\ Returns(p, "OK") )
              => copyStatus[calls[p].target] = "AVAILABLE"]_vars

\* ------------------------------------------------------------------------
\* C8: createLoan checks (1) borrower exists, (2) open loans below the limit,
\* (3) copy exists, (4) copy AVAILABLE, in this order, and returns the error
\* of the first check that fails; a failed check records no loan and writes
\* no copy status.
\* ------------------------------------------------------------------------
CheckErrors ==
    {"USER_NOT_FOUND", "LOAN_LIMIT_EXCEEDED", "COPY_NOT_FOUND", "BOOK_NOT_AVAILABLE"}

C8_ChecksInOrder ==
    [][\A p \in Calls :
          /\ (calls[p].pc = "idle" /\ calls'[p].op = "createLoan")
             => IF calls'[p].userId \notin Users
                THEN Returns(p, "USER_NOT_FOUND")
                ELSE calls'[p].pc = "countActiveLoans"
          /\ Steps(p, "createLoan", "countActiveLoans")
             => IF countActiveLoans(calls[p].userId) >= loanLimit[calls[p].userId]
                THEN Returns(p, "LOAN_LIMIT_EXCEEDED")
                ELSE calls'[p].pc = "findCopyById"
          /\ Steps(p, "createLoan", "findCopyById")
             => IF calls[p].target \notin Copies
                THEN Returns(p, "COPY_NOT_FOUND")
                ELSE IF copyStatus[calls[p].target] # "AVAILABLE"
                     THEN Returns(p, "BOOK_NOT_AVAILABLE")
                     ELSE calls'[p].pc = "create"
          /\ ( /\ calls[p].pc # "done"
               /\ calls'[p].op = "createLoan"
               /\ calls'[p].pc = "done"
               /\ calls'[p].result \in CheckErrors )
             => /\ loans' = loans
                /\ copyStatus' = copyStatus
                /\ \A l \in loans' : l.id # p]_vars

\* the limit check has refused a call whose copy does not exist either
C8_Witness ==
    \E p \in Calls :
        /\ calls[p].op = "createLoan"
        /\ calls[p].pc = "done"
        /\ calls[p].result = "LOAN_LIMIT_EXCEEDED"
        /\ calls[p].target \notin Copies
        /\ LoanOfCall(p) = {}

\* ------------------------------------------------------------------------
\* C9: with limit L and c open loans, createLoan fails with
\* LOAN_LIMIT_EXCEEDED{limit = L, currentCount = c} exactly when c >= L and
\* passes the limit check exactly when c < L.
\* ------------------------------------------------------------------------
C9_LimitCheckExact ==
    [][\A p \in Calls :
          /\ Steps(p, "createLoan", "countActiveLoans")
             => LET c == countActiveLoans(calls[p].userId)
                    L == loanLimit[calls[p].userId]
                IN IF c >= L
                   THEN /\ Returns(p, "LOAN_LIMIT_EXCEEDED")
                        /\ calls'[p].limit = L
                        /\ calls'[p].count = c
                   ELSE calls'[p].pc = "findCopyById"
          /\ (calls[p].pc # "done" /\ Returns(p, "LOAN_LIMIT_EXCEEDED"))
             => Steps(p, "createLoan", "countActiveLoans")]_vars

\* a borrower at the limit (c = L) has been refused an AVAILABLE copy
C9_Witness ==
    \E p \in Calls :
        /\ calls[p].op = "createLoan"
        /\ calls[p].pc = "done"
        /\ calls[p].result = "LOAN_LIMIT_EXCEEDED"
        /\ calls[p].limit = loanLimit[calls[p].userId]
        /\ calls[p].count = calls[p].limit
        /\ countActiveLoans(calls[p].userId) = calls[p].count
        /\ calls[p].target \in Copies
        /\ copyStatus[calls[p].target] = "AVAILABLE"

\* ------------------------------------------------------------------------
\* C10: createReservation is refused with BOOK_AVAILABLE whenever a copy of
\* the title is AVAILABLE, and passes the availability check only when at
\* least one copy of the title is not AVAILABLE.
\* ------------------------------------------------------------------------
C10_ReservedOnlyWhenACopyIsOut ==
    [][\A p \in Calls :
          Steps(p, "createReservation", "findCopiesByBookId")
          => LET copies == findCopiesByBookId(calls[p].target)
             IN /\ (\E c \in copies : copyStatus[c] = "AVAILABLE")
                   => Returns(p, "BOOK_AVAILABLE")
                /\ calls'[p].pc # "done"
                   => \E c \in copies : copyStatus[c] # "AVAILABLE"]_vars

\* ------------------------------------------------------------------------
\* C11: createReservation checks (1) borrower exists, (2) title exists,
\* (3) the borrower has no PENDING/NOTIFIED reservation for the title,
\* (4) no copy of the title is AVAILABLE, in this order, and returns the error
\* of the first check that fails; a failed check inserts no reservation.
\* ------------------------------------------------------------------------
ReservationCheckErrors ==
    {"USER_NOT_FOUND", "BOOK_NOT_FOUND", "ALREADY_RESERVED", "BOOK_AVAILABLE"}

C11_ReservationChecksInOrder ==
    [][\A p \in Calls :
          /\ (calls[p].pc = "idle" /\ calls'[p].op = "createReservation")
             => IF calls'[p].userId \notin Users
                THEN Returns(p, "USER_NOT_FOUND")
                ELSE IF calls'[p].target \notin Books
                     THEN Returns(p, "BOOK_NOT_FOUND")
                     ELSE calls'[p].pc = "hasActiveReservation"
          /\ Steps(p, "createReservation", "hasActiveReservation")
             => IF hasActiveReservation(calls[p].userId, calls[p].target)
                THEN Returns(p, "ALREADY_RESERVED")
                ELSE calls'[p].pc = "findCopiesByBookId"
          /\ Steps(p, "createReservation", "findCopiesByBookId")
             => IF \E c \in findCopiesByBookId(calls[p].target) :
                       copyStatus[c] = "AVAILABLE"
                THEN Returns(p, "BOOK_AVAILABLE")
                ELSE calls'[p].pc = "countActiveByBookId"
          /\ ( /\ calls[p].pc # "done"
               /\ calls'[p].op = "createReservation"
               /\ calls'[p].pc = "done"
               /\ calls'[p].result \in ReservationCheckErrors )
             => /\ reservations' = reservations
                /\ \A r \in reservations' : r.id # p]_vars

\* the borrower check has refused a call whose title does not exist either
C11_Witness ==
    \E p \in Calls :
        /\ calls[p].op = "createReservation"
        /\ calls[p].pc = "done"
        /\ calls[p].result = "USER_NOT_FOUND"
        /\ calls[p].userId \notin Users
        /\ calls[p].target \notin Books
        /\ \A r \in reservations : r.id # p

\* ------------------------------------------------------------------------
\* C12: a successful createReservation inserts its reservation with queue
\* position = (number of PENDING/NOTIFIED reservations of the title when it
\* is created) + 1, behind every PENDING/NOTIFIED reservation of the title
\* created before it (FIFO).
\* ------------------------------------------------------------------------
C12_QueuePositionIsCountPlusOneFIFO ==
    [][\A p \in Calls :
          (Steps(p, "createReservation", "create") /\ Returns(p, "OK"))
          => \E r \in reservations' \ reservations :
                 /\ r.id = p
                 /\ r.queuePosition = countActiveByBookId(r.bookId) + 1
                 /\ \A x \in ActiveOfBook(reservations, r.bookId) :
                        x.queuePosition < r.queuePosition]_vars

\* ------------------------------------------------------------------------
\* C13: when an open loan is returned and a PENDING reservation exists for
\* the title, the longest-waiting PENDING reservation becomes NOTIFIED with a
\* fresh hold period, the copy becomes RESERVED, exactly one
\* RESERVATION_AVAILABLE job is enqueued, for that reservation's borrower,
\* and no other reservation changes; with no PENDING reservation the copy
\* becomes AVAILABLE and no job is enqueued.
\* ------------------------------------------------------------------------
ReturnsLoan(l) ==
    /\ l \in loans
    /\ ~l.returned
    /\ [l EXCEPT !.returned = TRUE] \in loans'

C13_ReturnPromotesHeadOfQueue ==
    [][\A l \in loans :
          ReturnsLoan(l)
          => LET c == l.bookCopyId
                 b == bookOf[c]
                 pending == PendingOfBook(reservations, b)
             IN IF pending = {}
                THEN /\ copyStatus' = [copyStatus EXCEPT ![c] = "AVAILABLE"]
                     /\ jobs' = jobs
                     /\ reservations' = reservations
                ELSE \E h \in pending :
                       /\ \A x \in pending : x = h \/ Ahead(h, x)
                       /\ reservations' = (reservations \ {h}) \cup
                              {[h EXCEPT !.status = "NOTIFIED", !.lapsed = FALSE]}
                       /\ copyStatus' = [copyStatus EXCEPT ![c] = "RESERVED"]
                       /\ Cardinality(jobs' \ jobs) = 1
                       /\ jobs \subseteq jobs'
                       /\ \A j \in jobs' \ jobs :
                              /\ j.type = "RESERVATION_AVAILABLE"
                              /\ j.userId = h.userId
                              /\ j.bookId = b
                              /\ j.reservationId = h.id]_vars

\* a return has promoted the head of a queue of two: one reservation is
\* NOTIFIED with its copy held and one job, the other still waits
C13_Witness ==
    \E r1, r2 \in reservations, l \in loans :
        /\ l.returned
        /\ copyStatus[l.bookCopyId] = "RESERVED"
        /\ r1.bookId = bookOf[l.bookCopyId]
        /\ r2.bookId = r1.bookId
        /\ r1.status = "NOTIFIED"
        /\ r2.status = "PENDING"
        /\ Ahead(r1, r2)
        /\ Cardinality({j \in jobs : j.reservationId = r1.id}) = 1
        /\ \A j \in jobs : j.reservationId # r2.id

\* ------------------------------------------------------------------------
\* C14: returnBook on an open loan, with no reservation PENDING for the
\* title, succeeds, closes the loan and leaves the copy AVAILABLE; returnBook
\* on a loan already returned fails with ALREADY_RETURNED and changes neither
\* the loan nor any copy's status.
\* ------------------------------------------------------------------------
ReturnBookCalled(l) ==
    \/ returnResult'[l.id] # returnResult[l.id]
    \/ ReturnsLoan(l)

C14_ReturnRoundTrip ==
    [][\A l \in loans :
          ReturnBookCalled(l)
          => IF l.returned
             THEN /\ returnResult'[l.id].again = "ALREADY_RETURNED"
                  /\ returnResult'[l.id].first = returnResult[l.id].first
                  /\ loans' = loans
                  /\ copyStatus' = copyStatus
             ELSE /\ returnResult'[l.id] = [first |-> "OK", again |-> "NONE"]
                  /\ loans' = (loans \ {l}) \cup {[l EXCEPT !.returned = TRUE]}
                  /\ PendingOfBook(reservations, bookOf[l.bookCopyId]) = {}
                     => copyStatus'[l.bookCopyId] = "AVAILABLE"]_vars

\* the loan of a successful createLoan was returned and a second returnBook
\* on it was refused; the copy is AVAILABLE
C14_Witness ==
    \E l \in loans :
        /\ l.id \in Calls
        /\ calls[l.id].op = "createLoan"
        /\ calls[l.id].result = "OK"
        /\ l.returned
        /\ returnResult[l.id] = [first |-> "OK", again |-> "ALREADY_RETURNED"]
        /\ copyStatus[l.bookCopyId] = "AVAILABLE"

\* ------------------------------------------------------------------------
\* Notification jobs as seen by the claims
\* ------------------------------------------------------------------------

\* the borrower and the title / loan of the job can be looked up
Resolvable(j) ==
    /\ queue[j].userId \in Users
    /\ IF queue[j].type = "RESERVATION_AVAILABLE"
       THEN queue[j].ref \in Books
       ELSE loanLookupDefined /\ queue[j].ref \in KnownLoans

AllSendsFailed(j) ==
    \A i \in 1..Len(history[j]) : ~history[j][i].success

\* ------------------------------------------------------------------------
\* C15: no job is attempted more than maxAttempts times; a job whose
\* transport fails on every attempt is re-queued only while attempts remain
\* and is FAILED after exactly maxAttempts attempts.
\* ------------------------------------------------------------------------
C15_FailedAfterMaxAttempts ==
    \A j \in Jobs :
        /\ queue[j].started <= maxRetries
        /\ queue[j].sends <= maxRetries
        /\ queue[j].state \in {"waiting", "delayed"}
           => queue[j].started < maxRetries
        /\ (getJobStatus(j) = "FAILED" /\ Resolvable(j))
           => /\ queue[j].started = maxRetries
              /\ queue[j].sends = maxRetries
              /\ Len(history[j]) = maxRetries
              /\ AllSendsFailed(j)
        /\ ( /\ Resolvable(j)
             /\ queue[j].state \notin {"active", "removed"}
             /\ queue[j].sends = maxRetries
             /\ AllSendsFailed(j) )
           => getJobStatus(j) = "FAILED"

\* the transport failed maxAttempts times and the job is FAILED
C15_Witness ==
    \E j \in Jobs :
        /\ Resolvable(j)
        /\ getJobStatus(j) = "FAILED"
        /\ queue[j].started = maxRetries
        /\ queue[j].sends = maxRetries
        /\ Len(history[j]) = maxRetries
        /\ AllSendsFailed(j)

\* ------------------------------------------------------------------------
\* C16: a job whose transport fails k times and then succeeds (k + 1 <=
\* maxAttempts) has exactly k + 1 history records, the first k with success =
\* false and the last with success = true, and ends COMPLETED.
\* ------------------------------------------------------------------------
C16_RetriedUntilDelivered ==
    \A j \in Jobs :
        LET h == history[j]
        IN /\ \A i \in 1..Len(h) : h[i].success => i = Len(h)
           /\ getJobStatus(j) = "COMPLETED"
              => /\ Len(h) >= 1
                 /\ h[Len(h)].success
                 /\ Len(h) = queue[j].sends
                 /\ Len(h) = queue[j].started
                 /\ Len(h) <= maxRetries
           /\ ( /\ Len(h) >= 1
                /\ h[Len(h)].success
                /\ queue[j].state \notin {"active", "removed"} )
              => getJobStatus(j) = "COMPLETED"

\* two failures, then the third attempt delivers: three records, COMPLETED
C16_Witness ==
    \E j \in Jobs :
        /\ getJobStatus(j) = "COMPLETED"
        /\ queue[j].sends = 3
        /\ Len(history[j]) = 3
        /\ ~history[j][1].success
        /\ ~history[j][2].success
        /\ history[j][3].success

\* ------------------------------------------------------------------------
\* C17: every completed attempt of a job (success, transport failure or
\* missing borrower / title / loan) has appended exactly one history record:
\* the records of a job are as many as its attempts that have ended.
\* ------------------------------------------------------------------------
C17_OneHistoryRecordPerAttempt ==
    \A j \in Jobs :
        /\ Len(history[j]) <= queue[j].started
        /\ queue[j].state # "active" => Len(history[j]) = queue[j].started

\* ------------------------------------------------------------------------
\* C18: a job whose borrower, title or loan cannot be resolved is processed
\* exactly once: it is never scheduled for a retry and is FAILED after its
\* first attempt.
\* ------------------------------------------------------------------------
C18_MissingContextNeverRetried ==
    \A j \in Jobs :
        (queue[j].state # "none" /\ ~Resolvable(j))
        => /\ queue[j].started <= 1
           /\ queue[j].state # "delayed"
           /\ (queue[j].started = 1 /\ queue[j].state \notin {"active", "removed"})
              => getJobStatus(j) = "FAILED"

\* ------------------------------------------------------------------------
\* C19: a job in the queue is never removed from it before it is finished,
\* and, the worker running, every job in the queue eventually is COMPLETED
\* or FAILED.
\* ------------------------------------------------------------------------
C19_EveryJobTerminates ==
    /\ [][\A j \in Jobs :
              queue[j].state \notin {"none", "completed", "failed", "removed"}
              => queue'[j].state \notin {"none", "removed"}]_vars
    /\ \A j \in Jobs :
           (queue[j].state \notin {"none", "removed"})
               ~> (getJobStatus(j) \in {"COMPLETED", "FAILED"})

\* a job was retried once and then delivered
C19_Witness ==
    \E j \in Jobs :
        /\ getJobStatus(j) = "COMPLETED"
        /\ queue[j].attemptsMade = 2
        /\ enqueues[j].result = "OK"

\* ------------------------------------------------------------------------
\* C20: enqueue admits without delivering.
\* ------------------------------------------------------------------------
EnqueueReturns(k, res) ==
    /\ enqueues[k].pc # "done"
    /\ enqueues'[k].pc = "done"
    /\ enqueues'[k].result = res

C21_SweepIdempotent ==
    LET once == Sweep(Store)
    IN /\ StaleIds(once.res) = {}
       /\ Sweep(once) = once

\* a sweep has expired a hold and nothing further is past its expires-at
C21_Witness ==
    /\ \E r \in reservations : r.status = "EXPIRED"
    /\ \E r \in reservations : r.status = "NOTIFIED"
    /\ StaleIds(reservations) = {}

\* a step in which the sweep expires at least one hold
SweepStep ==
    \E r \in reservations, x \in reservations' :
        r.id = x.id /\ r.status = "NOTIFIED" /\ x.status = "EXPIRED"

\* C22: the sweep sets to EXPIRED exactly the NOTIFIED reservations past their
\* expires-at; a held copy is released AVAILABLE only when no PENDING
\* reservation remains for the title, otherwise it stays RESERVED for the head
\* of the waiting line, which becomes NOTIFIED and gets a job; the remaining
\* active reservations of the title are numbered 1..N
C22_SweepExpiresExactlyTheStale ==
    [][SweepStep =>
        LET stale == {r \in reservations : r.id \in StaleIds(reservations)}
            expired(res) == {r.id : r \in {x \in res : x.status = "EXPIRED"}}
            promoted == {x \in reservations' :
                            /\ x.status = "NOTIFIED"
                            /\ \E r \in reservations :
                                   r.id = x.id /\ r.status = "PENDING"}
        IN /\ expired(reservations') = expired(reservations) \cup StaleIds(reservations)
           /\ {r.id : r \in reservations'} = {r.id : r \in reservations}
           /\ \A r \in reservations, x \in reservations' :
                  (r.id = x.id /\ x.status # r.status) =>
                      \/ r \in stale /\ x.status = "EXPIRED"
                      \/ x \in promoted
           /\ jobs' = jobs \cup {[type |-> "RESERVATION_AVAILABLE",
                                  userId |-> x.userId,
                                  bookId |-> x.bookId,
                                  reservationId |-> x.id] : x \in promoted}
           /\ \A b \in Books :
                  LET staleB == {r \in stale : r.bookId = b}
                      held == {c \in Copies : bookOf[c] = b /\ copyStatus[c] = "RESERVED"}
                      released == {c \in held : copyStatus'[c] = "AVAILABLE"}
                      promotedB == {x \in promoted : x.bookId = b}
                      pendingBefore == PendingOfBook(reservations, b)
                      pendingAfter == PendingOfBook(reservations', b)
                      activeAfter == ActiveOfBook(reservations', b)
                  IN /\ \A c \in Copies :
                            bookOf[c] = b =>
                                (copyStatus'[c] = copyStatus[c] \/ c \in released)
                     /\ staleB = {} => (released = {} /\ promotedB = {})
                     /\ released # {} => pendingAfter = {}
                     /\ Cardinality(promotedB) <= Cardinality(staleB)
                     /\ \A x \in promotedB :
                            /\ ~x.lapsed
                            /\ \A y \in pendingAfter : x.queuePosition < y.queuePosition
                     /\ (staleB # {} /\ held # {} /\ pendingBefore # {}) =>
                            /\ promotedB # {}
                            /\ \A c \in held \ released : copyStatus'[c] = "RESERVED"
                     /\ (staleB # {} /\ held # {} /\ pendingBefore = {}) =>
                            released # {}
                     /\ staleB # {} =>
                            /\ {x.queuePosition : x \in activeAfter} =
                                   1..Cardinality(activeAfter)
                            /\ \A x, y \in activeAfter :
                                   x.queuePosition = y.queuePosition => x = y
    ]_vars

\* the sweep has expired a hold and passed the copy to the next in line
C22_Witness ==
    \E r, x \in reservations :
        /\ r.status = "EXPIRED"
        /\ x.status = "NOTIFIED" /\ x.queuePosition = 1 /\ ~x.lapsed
        /\ x.bookId = r.bookId
        /\ \E c \in Copies : bookOf[c] = x.bookId /\ copyStatus[c] = "RESERVED"
        /\ \E j \in jobs : j.reservationId = x.id

\* ------------------------------------------------------------------------
\* Copy status and open loans
\* ------------------------------------------------------------------------

\* C25: with no createLoan in progress, a copy is BORROWED if and only if
\* exactly one loan with returned-at = null references it
C25_BorrowedIffOneOpenLoan ==
    (\A p \in Calls : calls[p].op = "createLoan" => calls[p].pc = "done") =>
        \A c \in Copies :
            copyStatus[c] = "BORROWED" <=> Cardinality(ActiveLoansOfCopy(c)) = 1

\* C26: a write of a copy's status by createLoan or updateCopyStatus changes
\* it along an allowed transition only, and a write of BORROWED by createLoan
\* onto a copy that is neither AVAILABLE nor RESERVED fails and changes nothing
C26_OnlyAllowedTransitions ==
    [][calls' # calls =>
        LET allowed ==
                {<<"AVAILABLE", "BORROWED">>, <<"BORROWED", "AVAILABLE">>,
                 <<"AVAILABLE", "RESERVED">>, <<"RESERVED", "BORROWED">>,
                 <<"RESERVED", "AVAILABLE">>, <<"MAINTENANCE", "AVAILABLE">>}
                \cup {<<st, "MAINTENANCE">> : st \in BookCopyStatus}
        IN /\ \A c \in Copies :
                  copyStatus'[c] # copyStatus[c] =>
                      <<copyStatus[c], copyStatus'[c]>> \in allowed
           /\ \A p \in Calls :
                  ( /\ Steps(p, "createLoan", "updateCopy")
                    /\ calls[p].target \in Copies
                    /\ copyStatus[calls[p].target] \notin {"AVAILABLE", "RESERVED"} )
                  => (copyStatus' = copyStatus /\ ~Returns(p, "OK"))
    ]_vars

\* ------------------------------------------------------------------------
\* Frame of createReservation
\* ------------------------------------------------------------------------

\* C27: no step of createReservation changes a copy's status, a loan or an
\* existing reservation; a successful call inserts one new PENDING
\* reservation and a failed one changes nothing
C27_CreateReservationOnlyInserts ==
    [][\A p \in Calls :
          (calls'[p] # calls[p] /\ calls'[p].op = "createReservation") =>
              /\ copyStatus' = copyStatus
              /\ loans' = loans
              /\ jobs' = jobs
              /\ reservations \subseteq reservations'
              /\ IF Returns(p, "OK")
                 THEN \E r \in reservations' \ reservations :
                          /\ reservations' = reservations \cup {r}
                          /\ r.status = "PENDING"
                          /\ r.userId = calls'[p].userId
                          /\ r.bookId = calls'[p].target
                 ELSE reservations' = reservations
    ]_vars

\* a reservation has been added behind an existing one while a copy is out
C27_Witness ==
    \E p, q \in Calls :
        /\ p # q
        /\ calls[p].op = "createReservation" /\ calls[p].result = "OK"
        /\ calls[q].op = "createReservation" /\ calls[q].result = "OK"
        /\ \E r, x \in reservations :
               /\ r.id = p /\ x.id = q
               /\ r.queuePosition = 1 /\ x.queuePosition = 2
               /\ r.status = "PENDING" /\ x.status = "PENDING"
        /\ \E c \in Copies : copyStatus[c] = "BORROWED"

\* ------------------------------------------------------------------------
\* createReservation against a return of the same title
\* ------------------------------------------------------------------------

\* C30: with no operation in progress (and no administrative status change
\* made), no copy of a title is AVAILABLE while a PENDING reservation for
\* that title exists
C30_NoPendingBehindAvailableCopy ==
    ( /\ \A p \in Calls : calls[p].pc \in {"idle", "done"}
      /\ \A p \in Calls : calls[p].op # "updateCopyStatus" )
    => \A c \in Copies :
           copyStatus[c] = "AVAILABLE" => PendingOfBook(reservations, bookOf[c]) = {}

\* ------------------------------------------------------------------------
\* Status of a job
\* ------------------------------------------------------------------------

C24_StatusFollowsOutcomeKind ==
    /\ \A e \in LoanErrorTypes :
           getErrorStatusCode(e) =
               IF e = "VALIDATION_ERROR" THEN 400
               ELSE IF e \in {"USER_NOT_FOUND", "COPY_NOT_FOUND", "LOAN_NOT_FOUND"}
               THEN 404 ELSE 409
    /\ response.n > 0 =>
           /\ response.status \in {201, 400, 404, 409}
           /\ response.status = 201 <=> response.error = "NONE"
           /\ response.status = 201 =>
                  \E l \in loans : /\ l.id = MaxCalls + response.n
                                   /\ l.userId = response.userId
                                   /\ l.bookCopyId = response.bookCopyId
           /\ response.status = 404 <=>
                  response.error \in {"USER_NOT_FOUND", "COPY_NOT_FOUND"}
           /\ response.status = 409 <=>
                  response.error \in {"LOAN_LIMIT_EXCEEDED", "BOOK_NOT_AVAILABLE"}
           /\ response.status = 400 =>
                  \/ response.userId \in MissingIds
                  \/ response.bookCopyId \in MissingIds

\* ------------------------------------------------------------------------
\* createLoanWithReceipt against createLoan
\* ------------------------------------------------------------------------

\* C29: from the same store and for the same input, createLoanWithReceipt
\* succeeds exactly when createLoan does, returns the same error otherwise
\* and leaves the same loans and copy statuses, whenever the title can be
\* read; when it cannot, it fails without inserting a loan or writing a
\* copy status
C29_ReceiptEquivalentToCreateLoan ==
    [][( /\ response'.n # response.n
         /\ response'.userId \notin MissingIds
         /\ response'.bookCopyId \notin MissingIds ) =>
        LET r == response'
            plain == createLoan(MaxCalls + r.n, r.userId, r.bookCopyId,
                                r.copyWritable)
        IN IF r.bookReadable
           THEN /\ r.error = "NONE" <=> plain.type = "OK"
                /\ plain.type # "OK" =>
                       (r.error = plain.type /\ r.field = plain.field)
                /\ loans' = plain.loans
                /\ copyStatus' = plain.copyStatus
           ELSE /\ r.error # "NONE"
                /\ loans' = loans
                /\ copyStatus' = copyStatus
                /\ r.error = IF plain.type \in {"OK", "VALIDATION_ERROR"}
                             THEN "VALIDATION_ERROR" ELSE plain.type
    ]_vars

\* a loan was created with its receipt, and the next request, for a copy on
\* the shelf whose title could not be read, was refused
C29_Witness ==
    /\ response.n = 2
    /\ ~response.bookReadable
    /\ response.error = "VALIDATION_ERROR"
    /\ response.field = "book"
    /\ response.bookCopyId \in Copies
    /\ copyStatus[response.bookCopyId] = "AVAILABLE"
    /\ \E l \in loans : l.id = MaxCalls + 1 /\ ~l.returned
    /\ \A l \in loans : l.id # MaxCalls + 2

\* ------------------------------------------------------------------------
\* Database initialisation
\* ------------------------------------------------------------------------

\* how often the up script of migration m has been executed
Executions(m) == Cardinality({k \in 1..Len(upLog) : upLog[k] = m})

\* C28: over any number of runs of init-db, one after the other, each up
\* script is executed at most once and all of them once when a run has gone
\* through, in the order 001 ... 008; a recorded migration is never executed
\* again; and between the runs a migration is recorded if and only if its up
\* script has been executed
C28_EachMigrationExecutedOnce ==
    [][ /\ \A m \in Migrations : Executions(m)' <= 1
        /\ \A k \in 1..(Len(upLog') - 1) : upLog'[k] < upLog'[k + 1]
        /\ upLog' # upLog => upLog'[Len(upLog')] \notin schema_migrations
        /\ schema_migrations' = Migrations =>
               \A m \in Migrations : Executions(m)' = 1
        /\ run'.pc = "idle" =>
               \A m \in Migrations :
                   m \in schema_migrations' <=> Executions(m)' >= 1
    ]_vars

====
